---- MODULE Spec2Model ----
(***************************************************************************)
(* ws-proxy (src/src/main.rs): a debug proxy between one upstream          *)
(* websocket server and the clients that connect to its listening port.    *)
(*                                                                         *)
(* The ws event loop is single threaded: the factory closure and the       *)
(* handler callbacks run one at a time, so each is one atomic action.      *)
(* The observable boundary of the relay is the call of Sender::send: the   *)
(* variable sent records every call that returned Ok.  Timestamps          *)
(* (Utc::now()) are left out of the transcript entries.                    *)
(***************************************************************************)
EXTENDS Integers, Sequences, FiniteSets, TLC

\* ---------------------------------------------------------------- bounds
MaxConn == 3        \* connection ids issued by the transport: 0 .. MaxConn-1
MaxMessages == 2    \* message events handled in one run

\* ------------------------------------------------------------- constants
PRIMARY_ID == 0
\* Option<T>: None is the empty sequence, Some(x) the sequence of x alone.
None == <<>>
Some(x) == <<x>>
Unwrap(o) == o[1]
SERVER_PREFIX == <<"[", "s", "e", "r", "v", "e", "r", "]">>
SERVER_LOG == "ws-debug.server.log"
CLIENT_LOG == "ws-debug.client.log"
ServerLabel == "ws://example.test/socket"

ConnIds == 0 .. (MaxConn - 1)

\* --------------------------------------------------------------- strings
\* A string is a sequence of one-character strings.
DigitChars == <<"0", "1", "2", "3", "4", "5", "6", "7", "8", "9">>

RECURSIVE Digits(_)
\* Display of an unsigned integer ({} of a u32 / u8).
Digits(n) == IF n < 10 THEN <<DigitChars[n + 1]>>
             ELSE Digits(n \div 10) \o <<DigitChars[(n % 10) + 1]>>

\* ---------------------------------------------------------------- messages
Text(raw) == [kind |-> "Text", data |-> raw]
Binary(bytes) == [kind |-> "Binary", data |-> bytes]

Ping == <<"p", "i", "n", "g">>
JsonA1 == <<"{", "\"", "a", "\"", ":", "1", "}">>
BadJson == <<"{", "b", "a", "d", " ", "j", "s", "o", "n">>

\* The messages the relay is driven with: a text that pretty-printing changes
\* and a binary one.
Messages == {Text(JsonA1), Binary(<<1, 20>>)}

\* ------------------------------------------------------------ pretty_print
\* serde_json::from_str into a Value, for documents made of objects, arrays,
\* strings without escapes, unsigned integers and the three literals.  The
\* texts the model draws hold no backslash, sign, fraction or exponent.
AsciiOrder == <<"\t", "\n", "\r", " ", "\"", ",",
                "0", "1", "2", "3", "4", "5", "6", "7", "8", "9", ":",
                "[", "\\", "]",
                "a", "b", "c", "d", "e", "f", "g", "h", "i", "j", "k", "l", "m",
                "n", "o", "p", "q", "r", "s", "t", "u", "v", "w", "x", "y", "z",
                "{", "}">>
CharCode(c) == CHOOSE k \in 1 .. Len(AsciiOrder) : AsciiOrder[k] = c
IsDigit(c) == c \in {DigitChars[k] : k \in 1 .. 10}
IsControl(c) == c \in {"\t", "\n", "\r"}
Whitespace == {" ", "\n", "\t", "\r"}

RECURSIVE StrLess(_, _)
\* The order of String keys in the BTreeMap of a Value::Object.
StrLess(a, b) ==
    IF a = <<>> THEN b # <<>>
    ELSE IF b = <<>> THEN FALSE
    ELSE IF a[1] # b[1] THEN CharCode(a[1]) < CharCode(b[1])
    ELSE StrLess(Tail(a), Tail(b))

ParseFail == [ok |-> FALSE, val |-> [t |-> "none", v |-> <<>>], pos |-> 0]
Parsed(v, p) == [ok |-> TRUE, val |-> v, pos |-> p]

RECURSIVE SkipWs(_, _)
SkipWs(s, i) == IF i <= Len(s) /\ s[i] \in Whitespace THEN SkipWs(s, i + 1) ELSE i

RECURSIVE ScanDigits(_, _)
ScanDigits(s, i) == IF i <= Len(s) /\ IsDigit(s[i]) THEN ScanDigits(s, i + 1) ELSE i

\* s[i] is a digit: a lone 0, or a nonzero digit and more digits.
ParseNumber(s, i) ==
    LET j == IF s[i] = "0" THEN i + 1 ELSE ScanDigits(s, i)
    IN  IF s[i] = "0" /\ j <= Len(s) /\ IsDigit(s[j]) THEN ParseFail
        ELSE Parsed([t |-> "num", v |-> SubSeq(s, i, j - 1)], j)

\* s[i] is the opening quote.
ParseString(s, i) ==
    LET closes == {j \in (i + 1) .. Len(s) : s[j] = "\""}
    IN  IF closes = {} THEN ParseFail
        ELSE LET j == CHOOSE k \in closes : \A m \in closes : k <= m
                 body == SubSeq(s, i + 1, j - 1)
             IN  IF \E k \in 1 .. Len(body) : IsControl(body[k]) \/ body[k] = "\\"
                 THEN ParseFail
                 ELSE Parsed([t |-> "str", v |-> body], j + 1)

ParseLiteral(s, i, word) ==
    IF i + Len(word) - 1 <= Len(s) /\ SubSeq(s, i, i + Len(word) - 1) = word
    THEN Parsed([t |-> "lit", v |-> word], i + Len(word))
    ELSE ParseFail

RECURSIVE MapInsert(_, _, _)
\* BTreeMap::insert: the keys stay sorted, a repeated key keeps the last value.
MapInsert(m, k, v) ==
    IF m = <<>> THEN <<[k |-> k, v |-> v]>>
    ELSE IF m[1].k = k THEN <<[k |-> k, v |-> v]>> \o Tail(m)
    ELSE IF StrLess(k, m[1].k) THEN <<[k |-> k, v |-> v]>> \o m
    ELSE <<m[1]>> \o MapInsert(Tail(m), k, v)

RECURSIVE ParseValue(_, _)
RECURSIVE ParseElems(_, _, _)
RECURSIVE ParseMembers(_, _, _)

\* After "[" or ",": one element, then "," or "]".
ParseElems(s, i, acc) ==
    LET e == ParseValue(s, i)
        j == SkipWs(s, e.pos)
    IN  IF ~e.ok \/ j > Len(s) THEN ParseFail
        ELSE IF s[j] = "," THEN ParseElems(s, j + 1, Append(acc, e.val))
        ELSE IF s[j] = "]" THEN Parsed([t |-> "arr", v |-> Append(acc, e.val)], j + 1)
        ELSE ParseFail

\* After "{" or ",": a key, ":", a value, then "," or "}".
ParseMembers(s, i, acc) ==
    LET a == SkipWs(s, i)
        key == IF a <= Len(s) /\ s[a] = "\"" THEN ParseString(s, a) ELSE ParseFail
        c == SkipWs(s, key.pos)
        e == IF key.ok /\ c <= Len(s) /\ s[c] = ":" THEN ParseValue(s, c + 1)
             ELSE ParseFail
        j == SkipWs(s, e.pos)
    IN  IF ~e.ok \/ j > Len(s) THEN ParseFail
        ELSE IF s[j] = ","
             THEN ParseMembers(s, j + 1, MapInsert(acc, key.val.v, e.val))
        ELSE IF s[j] = "}"
             THEN Parsed([t |-> "obj", v |-> MapInsert(acc, key.val.v, e.val)], j + 1)
        ELSE ParseFail

ParseValue(s, i0) ==
    LET i == SkipWs(s, i0)
    IN  IF i > Len(s) THEN ParseFail
        ELSE IF s[i] = "{" THEN
             LET a == SkipWs(s, i + 1)
             IN  IF a <= Len(s) /\ s[a] = "}"
                 THEN Parsed([t |-> "obj", v |-> <<>>], a + 1)
                 ELSE ParseMembers(s, i + 1, <<>>)
        ELSE IF s[i] = "[" THEN
             LET a == SkipWs(s, i + 1)
             IN  IF a <= Len(s) /\ s[a] = "]"
                 THEN Parsed([t |-> "arr", v |-> <<>>], a + 1)
                 ELSE ParseElems(s, i + 1, <<>>)
        ELSE IF s[i] = "\"" THEN ParseString(s, i)
        ELSE IF IsDigit(s[i]) THEN ParseNumber(s, i)
        ELSE IF s[i] = "t" THEN ParseLiteral(s, i, <<"t", "r", "u", "e">>)
        ELSE IF s[i] = "f" THEN ParseLiteral(s, i, <<"f", "a", "l", "s", "e">>)
        ELSE IF s[i] = "n" THEN ParseLiteral(s, i, <<"n", "u", "l", "l">>)
        ELSE ParseFail

\* serde_json::from_str: one value, then only whitespace.
from_str(raw) ==
    LET r == ParseValue(raw, 1)
    IN  IF r.ok /\ SkipWs(raw, r.pos) > Len(raw) THEN r ELSE ParseFail

RECURSIVE Indent(_)
Indent(d) == IF d = 0 THEN <<>> ELSE <<" ", " ">> \o Indent(d - 1)

RECURSIVE Pretty(_, _)
RECURSIVE PrettyItems(_, _, _)

\* The elements or members of a non-empty array or object, one per line.
PrettyItems(items, d, is_obj) ==
    LET head == Indent(d)
                \o (IF is_obj
                    THEN <<"\"">> \o items[1].k \o <<"\"", ":", " ">>
                         \o Pretty(items[1].v, d)
                    ELSE Pretty(items[1], d))
    IN  IF Len(items) = 1 THEN head \o <<"\n">>
        ELSE head \o <<",", "\n">> \o PrettyItems(Tail(items), d, is_obj)

\* serde_json::to_string_pretty (PrettyFormatter, two spaces per level).
Pretty(val, d) ==
    IF val.t = "str" THEN <<"\"">> \o val.v \o <<"\"">>
    ELSE IF val.t = "arr" THEN
         IF val.v = <<>> THEN <<"[", "]">>
         ELSE <<"[", "\n">> \o PrettyItems(val.v, d + 1, FALSE) \o Indent(d) \o <<"]">>
    ELSE IF val.t = "obj" THEN
         IF val.v = <<>> THEN <<"{", "}">>
         ELSE <<"{", "\n">> \o PrettyItems(val.v, d + 1, TRUE) \o Indent(d) \o <<"}">>
    ELSE val.v

to_string_pretty(val) == Pretty(val, 0)

RECURSIVE DebugBytes(_)
DebugBytes(bytes) ==
    IF bytes = <<>> THEN <<>>
    ELSE IF Len(bytes) = 1 THEN Digits(bytes[1])
    ELSE Digits(bytes[1]) \o <<",", " ">> \o DebugBytes(Tail(bytes))

BinaryOpen == <<"B", "i", "n", "a", "r", "y", "(">>

\* Mutant: a text that does not parse is logged as the empty string.
pretty_print_EmptyOnError(msg, prettify) ==
    IF msg.kind = "Binary"
    THEN BinaryOpen \o <<"[">> \o DebugBytes(msg.data) \o <<"]", ")">>
    ELSE IF prettify
         THEN LET value == from_str(msg.data)
              IN  IF value.ok THEN to_string_pretty(value.val) ELSE <<>>
         ELSE msg.data

pretty_print(msg, prettify) ==
    IF msg.kind = "Binary"
    THEN BinaryOpen \o <<"[">> \o DebugBytes(msg.data) \o <<"]", ")">>
    ELSE IF prettify
         THEN LET value == from_str(msg.data)
              IN  IF value.ok THEN to_string_pretty(value.val) ELSE msg.data
         ELSE msg.data


\* -------------------------------------------------------------------- main
HELP == "This is a debug proxy, which dumps all messages passing through specified port.\n\nSyntax: ws-debug <server-url> <proxy-port> [--pretty-jsons]\n\nThe only two parameters are a port number to listen and a websocket url\nto redirect messages to. If a message comes from the <server-url>, it is directed\nto the last client connected to the debug proxy. Looping is forbidden.\n\nYou can provide --pretty-jsons flag to pretty print jsons when they are encountered.\nThe program will create a separate file for server and client."

HelpFlag == <<"-", "-", "h", "e", "l", "p">>
PrettyFlag == <<"-", "-", "p", "r", "e", "t", "t", "y", "-", "j", "s", "o", "n", "s">>

\* The arguments main is run with.
ExampleUrl == <<"w", "s", ":", "/", "/", "e", "x", "a", "m", "p", "l", "e", ".",
                "t", "e", "s", "t", "/", "s", "o", "c", "k", "e", "t">>
NoSchemeUrl == <<"h">>
NoHostUrl == <<"w", "s", ":", "/", "/">>
Port9001 == <<"9", "0", "0", "1">>
Port70000 == <<"7", "0", "0", "0", "0">>
PortWord == <<"p", "o", "r", "t">>
ArgValues == {HelpFlag, PrettyFlag, ExampleUrl, NoSchemeUrl, NoHostUrl,
              Port9001, Port70000, PortWord}

Letters == {"a", "b", "c", "d", "e", "f", "g", "h", "i", "j", "k", "l", "m",
            "n", "o", "p", "q", "r", "s", "t", "u", "v", "w", "x", "y", "z"}

\* Mutant: --help is seen only as the first argument.
FilterArgs_HelpFirstOnly(rest, kept, pretty) ==
    IF rest # <<>> /\ rest[1] = HelpFlag
    THEN [help |-> TRUE, args |-> kept, prettify_json |-> pretty]
    ELSE [help |-> FALSE,
          args |-> SelectSeq(rest, LAMBDA a : a \notin {HelpFlag, PrettyFlag}),
          prettify_json |-> \E k \in 1 .. Len(rest) : rest[k] = PrettyFlag]

RECURSIVE FilterArgs(_, _, _)
\* env::args().skip(1).filter(..).collect(): the arguments are taken from the
\* left; --help prints HELP and exits on the spot, --pretty-jsons sets the flag
\* and is dropped, anything else is kept.
FilterArgs(rest, kept, pretty) ==
    IF rest = <<>> THEN [help |-> FALSE, args |-> kept, prettify_json |-> pretty]
    ELSE IF rest[1] = HelpFlag
         THEN [help |-> TRUE, args |-> kept, prettify_json |-> pretty]
    ELSE IF rest[1] = PrettyFlag THEN FilterArgs(Tail(rest), kept, TRUE)
    ELSE FilterArgs(Tail(rest), Append(kept, rest[1]), pretty)

DigitValue(c) == (CHOOSE k \in 1 .. 10 : DigitChars[k] = c) - 1

RECURSIVE ParseDigits(_, _, _)
\* The digits of s from the left with the checked arithmetic of the width.
ParseDigits(s, acc, width) ==
    IF s = <<>> THEN [ok |-> TRUE, val |-> acc]
    ELSE IF ~IsDigit(s[1]) THEN [ok |-> FALSE, val |-> 0]
    ELSE IF acc * 10 + DigitValue(s[1]) >= 2 ^ width THEN [ok |-> FALSE, val |-> 0]
    ELSE ParseDigits(Tail(s), acc * 10 + DigitValue(s[1]), width)

\* Mutant: the port is parsed in a wider type and cut to 16 bits.
parse_u16_Truncates(s) ==
    LET wide == ParseDigits(s, 0, 30)
    IN  IF s = <<>> THEN [ok |-> FALSE, val |-> 0]
        ELSE [ok |-> wide.ok, val |-> wide.val % (2 ^ 16)]

\* arg2.parse::<u16>(): an optional + and at least one digit, no overflow.
parse_u16(s) ==
    LET digits == IF s # <<>> /\ s[1] = "+" THEN Tail(s) ELSE s
    IN  IF digits = <<>> THEN [ok |-> FALSE, val |-> 0]
        ELSE ParseDigits(digits, 0, 16)

\* The index of the colon that ends the scheme of s, 0 when s has no scheme.
SchemeEnd(s) ==
    LET colons == {k \in 1 .. Len(s) : s[k] = ":"}
        k == CHOOSE c \in colons : \A d \in colons : c <= d
    IN  IF colons = {} THEN 0
        ELSE IF k > 1 /\ s[1] \in Letters
                /\ \A j \in 1 .. (k - 1) :
                      s[j] \in Letters \/ IsDigit(s[j]) \/ s[j] \in {"+", "-", "."}
             THEN k
        ELSE 0

SpecialSchemes == {<<"w", "s">>, <<"w", "s", "s">>, <<"h", "t", "t", "p">>,
                   <<"h", "t", "t", "p", "s">>, <<"f", "t", "p">>}

RECURSIVE SkipSlashes(_, _)
SkipSlashes(s, i) ==
    IF i <= Len(s) /\ s[i] \in {"/", "\\"} THEN SkipSlashes(s, i + 1) ELSE i

RECURSIVE HostEnd(_, _)
HostEnd(s, i) ==
    IF i <= Len(s) /\ s[i] \notin {"/", "\\", "?", "#", ":"}
    THEN HostEnd(s, i + 1) ELSE i

\* Url::parse, as far as the arguments above need it: an input without a
\* scheme is a relative URL without a base, and a URL of a special scheme
\* (ws, wss, http, https, ftp) needs a host.
Url_parse(s) ==
    LET k == SchemeEnd(s)
        a == SkipSlashes(s, k + 1)
    IN  IF k = 0 THEN [ok |-> FALSE, err |-> "relative URL without a base"]
        ELSE IF SubSeq(s, 1, k - 1) \in SpecialSchemes /\ HostEnd(s, a) = a
             THEN [ok |-> FALSE, err |-> "empty host"]
        ELSE [ok |-> TRUE, err |-> ""]

\* The status the parent sees: std::process::exit(code) keeps the low 8 bits.
ExitStatus(code) == code % 256

Stdout(fmt, arg) == [fmt |-> fmt, arg |-> arg]
NoCall == [msg |-> Text(<<>>), prettify_json |-> FALSE, text |-> None]
NotRun == [reason |-> "not run", stdout |-> <<>>, status |-> None, listen |-> None]

\* fn main: what it prints, the status it ends with (None while listen runs)
\* and the arguments of the call of listen, if it is called.
main(argv) ==
    LET f == FilterArgs(argv, <<>>, FALSE)
    IN  IF f.help
        THEN [reason |-> "help", stdout |-> <<Stdout(HELP, <<>>)>>,
              status |-> Some(ExitStatus(0)), listen |-> None]
        ELSE IF Len(f.args) # 2
        THEN [reason |-> "usage", stdout |-> <<Stdout(HELP, <<>>)>>,
              status |-> Some(0), listen |-> None]
        ELSE IF ~Url_parse(f.args[1]).ok
        THEN [reason |-> "url",
              stdout |-> <<Stdout("Websocket URL {} is invalid", f.args[1])>>,
              status |-> Some(ExitStatus(-1)), listen |-> None]
        ELSE IF ~parse_u16(f.args[2]).ok
        THEN [reason |-> "port",
              stdout |-> <<Stdout("Port number {} is invalid", f.args[2])>>,
              status |-> Some(ExitStatus(-1)), listen |-> None]
        ELSE [reason |-> "listen", stdout |-> <<>>, status |-> None,
              listen |-> Some([proxy_port |-> parse_u16(f.args[2]).val,
                               server_url |-> f.args[1],
                               prettify_json |-> f.prettify_json])]


VARIABLES
    pc,                 \* "built", "connected", "listening", "panicked", "exited"
    prettify_json,      \* the --pretty-jsons flag
    next_connection_id, \* the transport's counter of connection ids
    server,             \* the Upstream slot: None or Some(id of a Sender)
    client,             \* the Downstream slot: None or Some(id of a Sender)
    handlers,           \* the Handler the factory made for each connection
    conn,               \* the transport's state of each connection
    sent,               \* the calls of Sender::send that returned Ok
    server_log,         \* the entries written to ws-debug.server.log
    client_log,         \* the entries written to ws-debug.client.log
    event,              \* the last message event and how its handler ended
    handled,            \* the number of message events so far
    borrow,             \* the borrow flag of the RefCell of each slot
    fatal,              \* what ended the process, "none" while it runs
    args,               \* the command line, without the program name
    main_out,           \* what main printed and how it ended
    pp                  \* a call of pretty_print: its arguments and its result

vars == <<pc, prettify_json, next_connection_id, server, client, handlers,
          conn, sent, server_log, client_log, event, handled, borrow, fatal,
          args, main_out, pp>>

NoHandler == [role |-> "None", server |-> None, connection_id |-> None,
              log_file |-> "None"]
NoEvent == [conn |-> None, msg |-> Text(<<>>), result |-> "None",
            write_ok |-> TRUE, send_failed |-> FALSE]

\* ------------------------------------------------------------------- Init
\* listen() has created the two empty slots and built the WebSocket; nothing
\* is connected yet.
Init ==
    /\ pc = "built"
    /\ prettify_json \in BOOLEAN
    /\ next_connection_id = 0
    /\ server = None
    /\ client = None
    /\ handlers = [c \in ConnIds |-> NoHandler]
    /\ conn = [c \in ConnIds |-> "None"]
    /\ sent = <<>>
    /\ server_log = <<>>
    /\ client_log = <<>>
    /\ event = NoEvent
    /\ handled = 0
    /\ borrow = [server |-> 0, client |-> 0]
    /\ fatal = "none"
    /\ args = IF prettify_json THEN <<ExampleUrl, Port9001, PrettyFlag>>
              ELSE <<ExampleUrl, Port9001>>
    /\ main_out = main(args)
    /\ pp = NoCall

\* ---------------------------------------------------------------- RefCell
\* The borrow flag of a RefCell is 0 while it is not borrowed, n > 0 while n
\* shared borrows are held and -1 while a mutable borrow is held.  borrow()
\* panics on a negative flag, borrow_mut() on any flag but 0.
BorrowOp(op, cell) == [op |-> op, cell |-> cell]

RECURSIVE RunBorrows(_, _)
\* The borrows and drops of ops, in order, from the flags given: whether all
\* borrows were granted, and the flags where it ended.
RunBorrows(ops, flags) ==
    IF ops = <<>> THEN [ok |-> TRUE, flags |-> flags]
    ELSE LET cell == ops[1].cell
             f == flags[cell]
         IN  IF ops[1].op = "borrow_mut"
             THEN IF f = 0
                  THEN RunBorrows(Tail(ops), [flags EXCEPT ![cell] = -1])
                  ELSE [ok |-> FALSE, flags |-> flags]
             ELSE IF ops[1].op = "borrow"
             THEN IF f >= 0
                  THEN RunBorrows(Tail(ops), [flags EXCEPT ![cell] = f + 1])
                  ELSE [ok |-> FALSE, flags |-> flags]
             ELSE IF ops[1].op = "drop_mut"
             THEN RunBorrows(Tail(ops), [flags EXCEPT ![cell] = 0])
             ELSE RunBorrows(Tail(ops), [flags EXCEPT ![cell] = f - 1])

\* ---------------------------------------------------------------- factory
\* Mutant: the first inbound connection is taken for the server as well.
IsServerConnection_UpToOne(id) == id <= PRIMARY_ID + 1

\* out.connection_id() == 0
IsServerConnection(id) == id = PRIMARY_ID

\* Mutant: the client branch writes the server slot, as the server branch does.
RegisterPeer_ServerSlotOnly(out) == server' = Some(out) /\ client' = client

\* Mutant: the client slot is kept while the connection it holds is open.
RegisterPeer_KeepsOpenClient(out) ==
    IF IsServerConnection(out)
    THEN server' = Some(out) /\ client' = client
    ELSE /\ client' = IF client # None /\ conn[Unwrap(client)] = "Active"
                      THEN client ELSE Some(out)
         /\ server' = server

\* Mutant: first-wins, a populated client slot is kept.
RegisterPeer_FirstWins(out) ==
    IF IsServerConnection(out)
    THEN server' = Some(out) /\ client' = client
    ELSE client' = (IF client = None THEN Some(out) ELSE client) /\ server' = server

\* The slot the factory closure writes for the new Sender.
RegisterPeer(out) ==
    IF IsServerConnection(out)
    THEN server' = Some(out) /\ client' = client
    ELSE client' = Some(out) /\ server' = server

\* The Handler value the closure returns.
NewHandler(out) ==
    IF IsServerConnection(out)
    THEN [role |-> "Server", server |-> None, connection_id |-> None,
          log_file |-> SERVER_LOG]
    ELSE [role |-> "Client", server |-> server, connection_id |-> Some(out),
          log_file |-> CLIENT_LOG]

ConnectedLine(out) ==
    IF IsServerConnection(out)
    THEN [fmt |-> "Proxy connected to the server at", prefix |-> <<>>,
          body |-> ServerLabel]
    ELSE [fmt |-> "Client connected to the proxy with id", prefix |-> <<>>,
          body |-> Digits(out)]

\* Mutant: the client branch reads the client slot, which it still holds
\* mutably borrowed, where it should read the server slot.
FactoryBorrows_SameCell(out) ==
    IF IsServerConnection(out)
    THEN [first |-> <<BorrowOp("borrow_mut", "server"), BorrowOp("drop_mut", "server")>>,
          rest |-> <<>>]
    ELSE [first |-> <<BorrowOp("borrow_mut", "client")>>,
          rest |-> <<BorrowOp("borrow", "client"), BorrowOp("drop", "client"),
                     BorrowOp("drop_mut", "client")>>]

\* The borrows of the closure: first the mutable borrow for the write of the
\* slot (a temporary in the server branch, a guard held to the end of the
\* block in the client branch), then, in the client branch, the shared
\* borrow of the server slot and the drop of the guard.
FactoryBorrows(out) ==
    IF IsServerConnection(out)
    THEN [first |-> <<BorrowOp("borrow_mut", "server"), BorrowOp("drop_mut", "server")>>,
          rest |-> <<>>]
    ELSE [first |-> <<BorrowOp("borrow_mut", "client")>>,
          rest |-> <<BorrowOp("borrow", "server"), BorrowOp("drop", "server"),
                     BorrowOp("drop_mut", "client")>>]

FactoryFlags(out) ==
    LET a == RunBorrows(FactoryBorrows(out).first, borrow)
    IN  IF a.ok THEN RunBorrows(FactoryBorrows(out).rest, a.flags) ELSE a

\* What ends the process inside the closure, in the order of the code: the
\* borrow of the slot, provide_file (which exits when the file cannot be
\* opened), the unwrap of the first write, the borrow of the server slot and
\* the unwrap of its content.
FactoryFatal(out, file_ok, write_ok) ==
    IF ~RunBorrows(FactoryBorrows(out).first, borrow).ok THEN "already borrowed"
    ELSE IF ~file_ok THEN "provide_file"
    ELSE IF ~write_ok THEN "write_fmt"
    ELSE IF ~FactoryFlags(out).ok THEN "already borrowed"
    ELSE IF ~IsServerConnection(out) /\ server = None THEN "unwrap of None"
    ELSE "none"

\* How the closure ends: provide_file exits the process when the file cannot
\* be opened, the unwrap of the first write panics when the write fails, and
\* the unwrap of the server slot panics when the slot is empty.
FactoryEnd(out, file_ok, write_ok) ==
    IF FactoryFatal(out, file_ok, write_ok) = "none" THEN "ok"
    ELSE IF FactoryFatal(out, file_ok, write_ok) = "provide_file" THEN "exited"
    ELSE "panicked"

\* The closure given to Builder::build, called with the Sender of a new
\* connection.  It leaves pc and fatal to its caller.
Factory(out, file_ok, write_ok) ==
    /\ IF RunBorrows(FactoryBorrows(out).first, borrow).ok
       THEN RegisterPeer(out)
       ELSE UNCHANGED <<server, client>>
    /\ borrow' = FactoryFlags(out).flags
    /\ IF RunBorrows(FactoryBorrows(out).first, borrow).ok /\ file_ok /\ write_ok
       THEN IF IsServerConnection(out)
            THEN /\ server_log' = Append(server_log, ConnectedLine(out))
                 /\ client_log' = client_log
            ELSE /\ client_log' = Append(client_log, ConnectedLine(out))
                 /\ server_log' = server_log
       ELSE UNCHANGED <<server_log, client_log>>
    /\ IF FactoryEnd(out, file_ok, write_ok) = "ok"
       THEN /\ handlers' = [handlers EXCEPT ![out] = NewHandler(out)]
            /\ conn' = [conn EXCEPT ![out] = "Opening"]
       ELSE UNCHANGED <<handlers, conn>>
    /\ next_connection_id' = next_connection_id + 1

\* ------------------------------------------------------------- transport
\* ws.connect(server_url).unwrap(): the transport calls the factory for the
\* outbound connection, then resolves and connects; an Err panics.
Connect ==
    /\ pc = "built"
    /\ \E file_ok \in BOOLEAN, write_ok \in BOOLEAN, connect_ok \in BOOLEAN :
          /\ Factory(next_connection_id, file_ok, write_ok)
          /\ pc' = IF FactoryEnd(next_connection_id, file_ok, write_ok) # "ok"
                   THEN FactoryEnd(next_connection_id, file_ok, write_ok)
                   ELSE IF connect_ok THEN "connected" ELSE "panicked"
          /\ fatal' = IF FactoryEnd(next_connection_id, file_ok, write_ok) # "ok"
                      THEN FactoryFatal(next_connection_id, file_ok, write_ok)
                      ELSE IF connect_ok THEN "none" ELSE "connect"
    /\ UNCHANGED <<prettify_json, sent, event, handled, args, main_out, pp>>

\* ws.listen(addr).unwrap(): binds the port and runs the event loop.
Listen ==
    /\ pc = "connected"
    /\ \E bind_ok \in BOOLEAN :
          /\ pc' = IF bind_ok THEN "listening" ELSE "panicked"
          /\ fatal' = IF bind_ok THEN "none" ELSE "listen"
    /\ UNCHANGED <<prettify_json, next_connection_id, server, client, handlers,
                   conn, sent, server_log, client_log, event, handled, borrow,
                   args, main_out, pp>>

\* The event loop accepts an inbound connection and calls the factory.
Accept ==
    /\ pc = "listening"
    /\ next_connection_id < MaxConn
    /\ \E file_ok \in BOOLEAN, write_ok \in BOOLEAN :
          /\ Factory(next_connection_id, file_ok, write_ok)
          /\ pc' = IF FactoryEnd(next_connection_id, file_ok, write_ok) = "ok"
                   THEN pc ELSE FactoryEnd(next_connection_id, file_ok, write_ok)
          /\ fatal' = FactoryFatal(next_connection_id, file_ok, write_ok)
    /\ UNCHANGED <<prettify_json, sent, event, handled, args, main_out, pp>>

\* Handler::on_open: logs only.
on_open(c) ==
    /\ pc = "listening"
    /\ conn[c] = "Opening"
    /\ conn' = [conn EXCEPT ![c] = "Active"]
    /\ UNCHANGED <<pc, prettify_json, next_connection_id, server, client,
                   handlers, sent, server_log, client_log, event, handled,
                   borrow, fatal, args, main_out, pp>>

\* Mutant: when the server connection closes, its handler empties the client
\* slot it shares.
on_close_ServerClearsClient(c) ==
    /\ pc = "listening"
    /\ conn[c] \in {"Opening", "Active"}
    /\ conn' = [conn EXCEPT ![c] = "Closed"]
    /\ client' = IF handlers[c].role = "Server" THEN None ELSE client
    /\ UNCHANGED <<pc, prettify_json, next_connection_id, server,
                   handlers, sent, server_log, client_log, event, handled,
                   borrow, fatal, args, main_out, pp>>

\* Mutant: a closing connection clears the client slot when it holds it.
on_close_ClearsSlot(c) ==
    /\ pc = "listening"
    /\ conn[c] \in {"Opening", "Active"}
    /\ conn' = [conn EXCEPT ![c] = "Closed"]
    /\ client' = IF client = Some(c) THEN None ELSE client
    /\ UNCHANGED <<pc, prettify_json, next_connection_id, server,
                   handlers, sent, server_log, client_log, event, handled,
                   borrow, fatal, args, main_out, pp>>

\* Handler::on_close: logs only.  A connection that fails its handshake is
\* dropped by the transport with the same effect on the state.
on_close(c) ==
    /\ pc = "listening"
    /\ conn[c] \in {"Opening", "Active"}
    /\ conn' = [conn EXCEPT ![c] = "Closed"]
    /\ UNCHANGED <<pc, prettify_json, next_connection_id, server, client,
                   handlers, sent, server_log, client_log, event, handled,
                   borrow, fatal, args, main_out, pp>>

\* ------------------------------------------------------------- on_message
\* Mutant: a Client handler has a peer only while its connection is the one
\* in the client slot.
Peer_OnlyCurrentClient(c) ==
    IF handlers[c].role = "Server" THEN client
    ELSE IF client = handlers[c].connection_id THEN handlers[c].server
    ELSE None

\* Mutant: every handler sends to the slot of its own role.
Peer_OwnRole(c) ==
    IF handlers[c].role = "Server" THEN server ELSE client

\* The peer the handler of connection c sends to: the content of the shared
\* client slot for the Server handler, the captured Sender for a Client one.
Peer(c) ==
    IF handlers[c].role = "Server" THEN client ELSE handlers[c].server

\* Mutant: the pretty-printed body is what gets forwarded.
Forwarded_Pretty(msg) == Text(pretty_print(msg, prettify_json))

\* msg.clone(), the argument of send.
Forwarded(msg) == msg

\* Mutant: every entry carries the server's prefix.
Prefix_AlwaysServer(c) == SERVER_PREFIX

\* format!("[id: {}]", connection_id), or SERVER_PREFIX.
Prefix(c) ==
    IF handlers[c].role = "Server" THEN SERVER_PREFIX
    ELSE <<"[", "i", "d", ":", " ">> \o Digits(Unwrap(handlers[c].connection_id)) \o <<"]">>

\* log_to_file: one entry; a failed write is reported and dropped.
LogEntry(c, msg) ==
    [fmt |-> "message", prefix |-> Prefix(c),
     body |-> pretty_print(msg, prettify_json)]

log_to_file(c, msg, write_ok) ==
    IF ~write_ok THEN UNCHANGED <<server_log, client_log>>
    ELSE IF handlers[c].log_file = SERVER_LOG
         THEN /\ server_log' = Append(server_log, LogEntry(c, msg))
              /\ client_log' = client_log
         ELSE /\ client_log' = Append(client_log, LogEntry(c, msg))
              /\ server_log' = server_log

\* The borrows of on_message: the Server handler holds the client slot
\* mutably borrowed to the end of its arm, a Client handler borrows nothing.
OnMessageBorrows(c) ==
    IF handlers[c].role = "Server"
    THEN <<BorrowOp("borrow_mut", "client"), BorrowOp("drop_mut", "client")>>
    ELSE <<>>

\* Mutant: the result of send is reported and dropped, as that of the write
\* to the log file is.
OnMessageFatal_SwallowsSendError(c, send_ok) ==
    IF ~RunBorrows(OnMessageBorrows(c), borrow).ok THEN "already borrowed"
    ELSE IF Peer(c) = None THEN "assertion failed"
    ELSE "none"

\* What ends the process inside on_message: the borrow of the client slot,
\* the assertion on its content, the unwrap of the result of send.
OnMessageFatal(c, send_ok) ==
    IF ~RunBorrows(OnMessageBorrows(c), borrow).ok THEN "already borrowed"
    ELSE IF Peer(c) = None THEN "assertion failed"
    ELSE IF ~send_ok THEN "send"
    ELSE "none"

\* Mutant: a server message that finds the client slot empty is dropped and
\* the handler returns Ok.
on_message_DropsWhenAbsent(c, msg, send_ok, write_ok) ==
    /\ pc = "listening"
    /\ conn[c] = "Active"
    /\ handled < MaxMessages
    /\ handled' = handled + 1
    /\ borrow' = RunBorrows(OnMessageBorrows(c), borrow).flags
    /\ IF Peer(c) = None
       THEN /\ pc' = pc
            /\ fatal' = fatal
            /\ event' = [conn |-> Some(c), msg |-> msg, result |-> "Ok",
                         write_ok |-> TRUE, send_failed |-> FALSE]
            /\ UNCHANGED <<sent, server_log, client_log>>
       ELSE IF ~send_ok
       THEN /\ pc' = "panicked"
            /\ fatal' = "send"
            /\ event' = [conn |-> Some(c), msg |-> msg, result |-> "panic",
                         write_ok |-> TRUE, send_failed |-> TRUE]
            /\ UNCHANGED <<sent, server_log, client_log>>
       ELSE /\ pc' = pc
            /\ fatal' = fatal
            /\ sent' = Append(sent, [src |-> c, dst |-> Unwrap(Peer(c)),
                                     msg |-> Forwarded(msg)])
            /\ log_to_file(c, msg, write_ok)
            /\ event' = [conn |-> Some(c), msg |-> msg, result |-> "Ok",
                         write_ok |-> write_ok, send_failed |-> FALSE]
    /\ UNCHANGED <<prettify_json, next_connection_id, server, client, handlers,
                   conn, args, main_out, pp>>

\* Mutant: the entry is written before the message is sent.
on_message_LogsFirst(c, msg, send_ok, write_ok) ==
    /\ pc = "listening"
    /\ conn[c] = "Active"
    /\ handled < MaxMessages
    /\ handled' = handled + 1
    /\ borrow' = RunBorrows(OnMessageBorrows(c), borrow).flags
    /\ fatal' = OnMessageFatal(c, send_ok)
    /\ IF OnMessageFatal(c, send_ok) \in {"already borrowed", "assertion failed"}
       THEN /\ pc' = "panicked"
            /\ event' = [conn |-> Some(c), msg |-> msg, result |-> "panic",
                         write_ok |-> TRUE, send_failed |-> FALSE]
            /\ UNCHANGED <<sent, server_log, client_log>>
       ELSE /\ log_to_file(c, msg, write_ok)
            /\ IF send_ok
               THEN /\ pc' = pc
                    /\ sent' = Append(sent, [src |-> c, dst |-> Unwrap(Peer(c)),
                                             msg |-> Forwarded(msg)])
                    /\ event' = [conn |-> Some(c), msg |-> msg, result |-> "Ok",
                                 write_ok |-> write_ok, send_failed |-> FALSE]
               ELSE /\ pc' = "panicked"
                    /\ sent' = sent
                    /\ event' = [conn |-> Some(c), msg |-> msg, result |-> "panic",
                                 write_ok |-> write_ok, send_failed |-> TRUE]
    /\ UNCHANGED <<prettify_json, next_connection_id, server, client, handlers,
                   conn, args, main_out, pp>>

\* Handler::on_message.  The borrow of the client slot, the assertion on its
\* content and the unwrap of the result of send all panic, before anything is
\* logged.  event.send_failed tells that send was called and returned Err.
on_message(c, msg, send_ok, write_ok) ==
    /\ pc = "listening"
    /\ conn[c] = "Active"
    /\ handled < MaxMessages
    /\ handled' = handled + 1
    /\ borrow' = RunBorrows(OnMessageBorrows(c), borrow).flags
    /\ fatal' = IF OnMessageFatal(c, send_ok) = "none" THEN fatal
                ELSE OnMessageFatal(c, send_ok)
    /\ IF OnMessageFatal(c, send_ok) # "none"
       THEN /\ pc' = "panicked"
            /\ event' = [conn |-> Some(c), msg |-> msg, result |-> "panic",
                         write_ok |-> TRUE,
                         send_failed |-> (RunBorrows(OnMessageBorrows(c), borrow).ok
                                          /\ Peer(c) # None /\ ~send_ok)]
            /\ UNCHANGED <<sent, server_log, client_log>>
       ELSE /\ pc' = pc
            /\ sent' = IF send_ok
                       THEN Append(sent, [src |-> c, dst |-> Unwrap(Peer(c)),
                                          msg |-> Forwarded(msg)])
                       ELSE sent
            /\ log_to_file(c, msg, write_ok)
            /\ event' = [conn |-> Some(c), msg |-> msg, result |-> "Ok",
                         write_ok |-> write_ok, send_failed |-> ~send_ok]
    /\ UNCHANGED <<prettify_json, next_connection_id, server, client, handlers,
                   conn, args, main_out, pp>>

Next ==
    \/ Connect
    \/ Listen
    \/ Accept
    \/ \E c \in ConnIds : on_open(c)
    \/ \E c \in ConnIds : on_close(c)
    \/ \E c \in ConnIds, msg \in Messages, send_ok \in BOOLEAN, write_ok \in BOOLEAN :
          on_message(c, msg, send_ok, write_ok)

Spec == Init /\ [][Next]_vars

\* ------------------------------------------------------------ main, as run
MaxArgs == 3        \* the number of arguments of a command line

RECURSIVE ArgLists(_)
ArgLists(n) ==
    IF n = 0 THEN {<<>>}
    ELSE ArgLists(n - 1)
         \cup {Append(l, a) : l \in {x \in ArgLists(n - 1) : Len(x) = n - 1},
                              a \in ArgValues}

\* The process has started and main has not run: prettify_json is false and
\* nothing of listen exists.
InitMain ==
    /\ pc = "main"
    /\ args \in ArgLists(MaxArgs)
    /\ main_out = NotRun
    /\ pp = NoCall
    /\ prettify_json = FALSE
    /\ next_connection_id = 0
    /\ server = None
    /\ client = None
    /\ handlers = [c \in ConnIds |-> NoHandler]
    /\ conn = [c \in ConnIds |-> "None"]
    /\ sent = <<>>
    /\ server_log = <<>>
    /\ client_log = <<>>
    /\ event = NoEvent
    /\ handled = 0
    /\ borrow = [server |-> 0, client |-> 0]
    /\ fatal = "none"

\* main runs up to the call of listen, or to its end.
main_run ==
    /\ pc = "main"
    /\ main_out' = main(args)
    /\ pc' = IF main(args).listen # None THEN "built" ELSE "exited"
    /\ prettify_json' = FilterArgs(args, <<>>, FALSE).prettify_json
    /\ fatal' = IF main(args).listen # None THEN "none" ELSE main(args).reason
    /\ UNCHANGED <<next_connection_id, server, client, handlers, conn, sent,
                   server_log, client_log, event, handled, borrow, args, pp>>

NextMain == main_run

SpecMain == InitMain /\ [][NextMain]_vars

\* ------------------------------------------------------------- properties
\* The inbound connections whose handler the factory has returned.
RegisteredClients == {c \in ConnIds : handlers[c].role = "Client"}
NewestClient == CHOOSE c \in RegisteredClients : \A d \in RegisteredClients : d <= c
LastSent == sent[Len(sent)]
\* A step in which a handler handed one more message to Sender::send.
SendStep == Len(sent') = Len(sent) + 1
\* A step that is one message event.
MessageStep == handled' = handled + 1
ClientPrefix(id) == <<"[", "i", "d", ":", " ">> \o Digits(id) \o <<"]">>

\* C1: the connection with the primary id 0 gets the Server role and is
\* recorded in the Upstream slot; every connection with another id gets the
\* Client role.
C1_RoleByIdentity ==
    \A c \in ConnIds :
        handlers[c].role # "None" =>
            IF c = 0
            THEN handlers[c].role = "Server" /\ server = Some(c)
            ELSE handlers[c].role = "Client" /\ handlers[c].connection_id = Some(c)

C1_Witness ==
    /\ handlers[0].role = "Server"
    /\ handlers[1].role = "Client"
    /\ handlers[2].role = "Client"

\* C2: the message handed to the opposite peer is the message that arrived,
\* same kind and same content, with pretty-printing on or off.
C2_PayloadUnchanged ==
    event.result = "Ok" =>
        /\ LastSent.src = Unwrap(event.conn)
        /\ LastSent.msg.kind = event.msg.kind
        /\ LastSent.msg.data = event.msg.data

\* Both directions were used with pretty-printing on, and the transcript body
\* of the forwarded text differs from the text.
C2_Witness ==
    /\ prettify_json
    /\ Len(sent) = 2
    /\ sent[1].src = 0 /\ sent[1].msg.kind = "Binary"
    /\ sent[2].src # 0 /\ sent[2].msg = Text(JsonA1)
    /\ Len(client_log) > 0
    /\ client_log[Len(client_log)].fmt = "message"
    /\ client_log[Len(client_log)].body # JsonA1

\* C3: every message is sent from a connection of one role to a connection
\* of the other role: server to client or client to server.
C3_OppositeRoleOnly ==
    \A k \in 1 .. Len(sent) :
        \/ /\ handlers[sent[k].src].role = "Server"
           /\ handlers[sent[k].dst].role = "Client"
        \/ /\ handlers[sent[k].src].role = "Client"
           /\ handlers[sent[k].dst].role = "Server"

C3_Witness ==
    /\ Cardinality(RegisteredClients) = 2
    /\ \E i, j \in 1 .. Len(sent) :
          /\ handlers[sent[i].src].role = "Server"
          /\ handlers[sent[j].src].role = "Client"

\* C4: once a second inbound connection is registered, every message the
\* Upstream handler sends goes to the newest registered inbound connection.
C4_LastWins ==
    [][(SendStep /\ Cardinality(RegisteredClients) >= 2
            /\ handlers[LastSent'.src].role = "Server")
        => LastSent'.dst = NewestClient]_vars

\* The server's message went to connection 2 while connection 1 was still
\* open.
C4_Witness ==
    /\ Len(sent) > 0
    /\ LastSent.src = 0
    /\ LastSent.dst = 2
    /\ conn[1] = "Active"

\* C5: a message event on the Upstream connection while the Downstream slot
\* is empty ends in a panic; nothing is sent and nothing is logged.
C5_AbsentPeerIsFatal ==
    [][(MessageStep /\ event'.conn = Some(PRIMARY_ID) /\ client = None)
        => /\ event'.result = "panic"
           /\ pc' = "panicked"
           /\ sent' = sent
           /\ server_log' = server_log
           /\ client_log' = client_log]_vars

C5_Witness ==
    /\ event.conn = Some(PRIMARY_ID)
    /\ event.result = "panic"
    /\ client = None
    /\ pc = "panicked"
    /\ sent = <<>>

\* The transcript entry of the message event that just ended.
C6_Entry ==
    LET c == Unwrap(event'.conn)
    IN  [fmt |-> "message",
         prefix |-> IF handlers[c].role = "Server" THEN SERVER_PREFIX
                    ELSE ClientPrefix(c),
         body |-> pretty_print(event'.msg, prettify_json)]

C6_OneSend ==
    /\ SendStep
    /\ LastSent'.src = Unwrap(event'.conn)
    /\ handlers[LastSent'.dst].role # handlers[LastSent'.src].role

C6_OneRecord ==
    IF handlers[Unwrap(event'.conn)].role = "Server"
    THEN server_log' = Append(server_log, C6_Entry) /\ client_log' = client_log
    ELSE client_log' = Append(client_log, C6_Entry) /\ server_log' = server_log

\* C6 as stated: every message event that is forwarded causes exactly one
\* send and exactly one transcript entry in the stream of the arrival role,
\* with the prefix [server] or [id: N] and the body made from the message.
C6_OneSendOneRecord_Original ==
    [][(MessageStep /\ event'.result = "Ok") => (C6_OneSend /\ C6_OneRecord)]_vars

\* C6 amended: every message event that is forwarded causes exactly one send;
\* it causes exactly one transcript entry, as above, when the write to the
\* log file succeeds, and leaves both transcripts unchanged when it fails.
C6_OneSendOneRecord ==
    [][(MessageStep /\ event'.result = "Ok")
        => /\ C6_OneSend
           /\ IF event'.write_ok THEN C6_OneRecord
              ELSE server_log' = server_log /\ client_log' = client_log]_vars

\* Connection 2 forwarded a message and its entry is the last of the client
\* transcript.
C6_Witness ==
    /\ event.conn = Some(2)
    /\ event.result = "Ok"
    /\ event.write_ok
    /\ Len(client_log) > 0
    /\ client_log[Len(client_log)].prefix = <<"[", "i", "d", ":", " ", "2", "]">>
    /\ LastSent.dst = 0

\* C7: the Upstream slot is written once, while connecting and before the
\* process listens; it is populated whenever the process listens and never
\* changes afterwards, so every Client handler captured the Upstream Sender.
C7_UpstreamWrittenOnce ==
    /\ [](pc = "listening" => server = Some(PRIMARY_ID))
    /\ [](\A c \in RegisteredClients : handlers[c].server = Some(PRIMARY_ID))
    /\ [][server' # server => (pc = "built" /\ server = None)]_vars

C7_Witness ==
    /\ pc = "listening"
    /\ Cardinality(RegisteredClients) = 2
    /\ conn[0] = "Closed"
    /\ server = Some(PRIMARY_ID)

\* C8 as stated: the Downstream slot is empty or holds a connection that is
\* not closed.
C8_DownstreamSlotLive ==
    client # None => conn[Unwrap(client)] # "Closed"

\* C9 as stated: once the Upstream connection is closed, no message is sent
\* any more.
C9_NoSendAfterUpstreamClose ==
    [][conn[PRIMARY_ID] = "Closed" => sent' = sent]_vars

\* C10: once an inbound connection is registered, the Downstream slot holds
\* that connection or one registered after it, never an earlier one and
\* never nothing, whatever events of other connections come in between.
C10_LookupSeesRegistration ==
    \A c \in RegisteredClients : client # None /\ Unwrap(client) >= c

\* The Upstream handler found connection 2 in the slot, and both inbound
\* connections are closed.
C10_Witness ==
    /\ conn[1] = "Closed"
    /\ conn[2] = "Closed"
    /\ event.conn = Some(PRIMARY_ID)
    /\ event.result = "Ok"
    /\ LastSent.dst = 2

\* C11: no borrow of a slot is asked for while a borrow of the same slot
\* that excludes it is held: no handler ends in a borrow panic, and no borrow
\* is left over from one event to the next, whatever the order of the
\* connection, message and close events.
C11_NoBorrowConflict ==
    /\ fatal # "already borrowed"
    /\ borrow = [server |-> 0, client |-> 0]

\* The client slot was written twice by registrations and read by a
\* forwarding handler, and connections have closed.
C11_Witness ==
    /\ Cardinality(RegisteredClients) = 2
    /\ Len(sent) > 0
    /\ LastSent.src = PRIMARY_ID
    /\ conn[1] = "Closed"
    /\ pc = "listening"

\* C12: when send returns an error, in either direction, the handler does not
\* return Ok: the unwrap panics and the process ends.
C12_SendFailureIsFatal ==
    [][(MessageStep /\ event'.send_failed)
        => /\ event'.result = "panic"
           /\ pc' = "panicked"
           /\ fatal' = "send"
           /\ sent' = sent]_vars

C12_Witness ==
    /\ event.send_failed
    /\ event.conn = Some(1)
    /\ fatal = "send"
    /\ pc = "panicked"

\* C13 as stated: once the relay listens, a failure of the transcript never
\* ends it, and a message whose entry could not be written is sent all the same and its
\* handler returns Ok.
C13_TranscriptFailureNotFatal ==
    [][/\ pc = "listening" => fatal' \notin {"provide_file", "write_fmt"}
       /\ (MessageStep /\ ~event'.write_ok)
            => (SendStep /\ event'.result = "Ok" /\ pc' = pc)]_vars

\* ---------------------------------------------------- pretty_print, as run
MaxTextLen == 3     \* the length of the texts made of TextChars
MaxBytes == 2       \* the length of the binary payloads

TextChars == {"{", "}", "[", "]", "\"", "a", ":", ",", "1", "0", " "}
ByteValues == {0, 1, 20, 255}

RECURSIVE SeqsUpTo(_, _)
SeqsUpTo(S, n) ==
    IF n = 0 THEN {<<>>}
    ELSE SeqsUpTo(S, n - 1)
         \cup {Append(l, a) : l \in {x \in SeqsUpTo(S, n - 1) : Len(x) = n - 1},
                              a \in S}

NestedJson == <<"{", "\"", "b", "\"", ":", "[", "1", ",", "{", "}", "]", ",",
                " ", "\"", "a", "\"", ":", "\"", "x", "\"", "}">>

PrettyInputs ==
    {Text(s) : s \in SeqsUpTo(TextChars, MaxTextLen)
                     \cup {Ping, JsonA1, BadJson, NestedJson}}
    \cup {Binary(b) : b \in SeqsUpTo(ByteValues, MaxBytes)}

InitPretty ==
    /\ pc = "pretty_print"
    /\ pp \in {[msg |-> m, prettify_json |-> f, text |-> None] :
                  m \in PrettyInputs, f \in BOOLEAN}
    /\ prettify_json = pp.prettify_json
    /\ args = IF prettify_json THEN <<ExampleUrl, Port9001, PrettyFlag>>
              ELSE <<ExampleUrl, Port9001>>
    /\ main_out = main(args)
    /\ next_connection_id = 0
    /\ server = None
    /\ client = None
    /\ handlers = [c \in ConnIds |-> NoHandler]
    /\ conn = [c \in ConnIds |-> "None"]
    /\ sent = <<>>
    /\ server_log = <<>>
    /\ client_log = <<>>
    /\ event = NoEvent
    /\ handled = 0
    /\ borrow = [server |-> 0, client |-> 0]
    /\ fatal = "none"

\* log_to_file calls pretty_print(msg, prettify_json).
pretty_print_run ==
    /\ pc = "pretty_print"
    /\ pp.text = None
    /\ pp' = [pp EXCEPT !.text = Some(pretty_print(pp.msg, pp.prettify_json))]
    /\ UNCHANGED <<pc, prettify_json, next_connection_id, server, client,
                   handlers, conn, sent, server_log, client_log, event, handled,
                   borrow, fatal, args, main_out>>

NextPretty == pretty_print_run

SpecPretty == InitPretty /\ [][NextPretty]_vars

\* ---------------------------------------------------- properties of main
Positionals(argv) == SelectSeq(argv, LAMBDA a : a \notin {HelpFlag, PrettyFlag})
HelpGiven == \E k \in 1 .. Len(args) : args[k] = HelpFlag
\* The argument values that are a URL, and those that are a port number.
GoodUrls == {ExampleUrl}
GoodPorts == {Port9001}
BadPositionals ==
    LET pos == Positionals(args)
    IN  ({pos[1]} \ GoodUrls) \cup ({pos[2]} \ GoodPorts)

C14_NoListenUnlessValid ==
    main_out.listen # None =>
        /\ Len(Positionals(args)) = 2
        /\ Positionals(args)[1] \in GoodUrls
        /\ Positionals(args)[2] \in GoodPorts

C14_InvalidValueIsAnError ==
    (Len(Positionals(args)) = 2 /\ BadPositionals # {}) =>
        /\ main_out.status # None
        /\ main_out.status # Some(0)
        /\ Len(main_out.stdout) = 1
        /\ main_out.stdout[1].arg \in BadPositionals
        /\ main_out.listen = None

C14_WrongCountIsUsage ==
    Len(Positionals(args)) # 2 =>
        /\ main_out.stdout = <<Stdout(HELP, <<>>)>>
        /\ main_out.status = Some(0)
        /\ main_out.listen = None

\* C14 as stated: listen is called only for two positionals that are a URL
\* and a port number; an invalid URL or port ends the process with a non-zero
\* status and a line naming the value; another number of positionals prints
\* the usage and ends with status 0.
C14_ArgumentsChecked_Original ==
    pc # "main" =>
        /\ C14_NoListenUnlessValid
        /\ C14_InvalidValueIsAnError
        /\ C14_WrongCountIsUsage

\* C14 amended: as stated, but an invalid URL or port ends the process with
\* a non-zero status and a line naming the value only when --help is not
\* among the arguments.
C14_ArgumentsChecked ==
    pc # "main" =>
        /\ C14_NoListenUnlessValid
        /\ ~HelpGiven => C14_InvalidValueIsAnError
        /\ C14_WrongCountIsUsage

\* An overflowing port after a valid URL and the flag.
C14_Witness ==
    /\ args = <<PrettyFlag, ExampleUrl, Port70000>>
    /\ pc = "exited"
    /\ main_out.status = Some(255)
    /\ main_out.stdout = <<Stdout("Port number {} is invalid", Port70000)>>

\* C15: with --help anywhere among the arguments, main prints the usage and
\* exits with status 0; it prints no diagnostic of a URL or port and does not
\* call listen, whatever the other arguments are.
C15_HelpFirst ==
    (pc # "main" /\ HelpGiven) =>
        /\ main_out.stdout = <<Stdout(HELP, <<>>)>>
        /\ main_out.status = Some(0)
        /\ main_out.listen = None
        /\ pc = "exited"

\* --help is the last argument, after an invalid URL and an invalid port.
C15_Witness ==
    /\ args = <<NoSchemeUrl, PortWord, HelpFlag>>
    /\ pc = "exited"
    /\ main_out.reason = "help"

\* ------------------------------------------------ properties, continued
\* C16: the transcript body is the description Binary([..]) of a binary
\* payload; the raw text when pretty-printing is off; with pretty-printing
\* on, the indented form of the document when the text parses, which parses
\* back to the same document, and the raw text when it does not.
C16_TranscriptBody ==
    pp.text # None =>
        LET text == Unwrap(pp.text)
            raw == pp.msg.data
        IN  /\ pp.msg.kind = "Binary" =>
                 text = BinaryOpen \o <<"[">> \o DebugBytes(raw) \o <<"]", ")">>
            /\ (pp.msg.kind = "Text" /\ ~pp.prettify_json) => text = raw
            /\ (pp.msg.kind = "Text" /\ pp.prettify_json /\ from_str(raw).ok) =>
                 /\ text = to_string_pretty(from_str(raw).val)
                 /\ from_str(text).ok
                 /\ from_str(text).val = from_str(raw).val
            /\ (pp.msg.kind = "Text" /\ pp.prettify_json /\ ~from_str(raw).ok) =>
                 text = raw
            /\ (pp.msg = Text(JsonA1) /\ pp.prettify_json) =>
                 text = <<"{", "\n", " ", " ", "\"", "a", "\"", ":", " ", "1",
                          "\n", "}">>
            /\ pp.msg \in {Text(BadJson), Text(Ping)} => text = raw
            /\ pp.msg = Binary(<<1, 20>>) =>
                 text = <<"B", "i", "n", "a", "r", "y", "(", "[", "1", ",", " ",
                          "2", "0", "]", ")">>

\* A text that is not a JSON document, logged with pretty-printing on.
C16_Witness ==
    /\ pp.msg = Text(BadJson)
    /\ pp.prettify_json
    /\ pp.text = Some(BadJson)

\* A step in which connection c closes.
CloseStep(c) == conn[c] # "Closed" /\ conn'[c] = "Closed"

\* C17: the close of a Downstream connection leaves the Upstream slot as it
\* is, the close of the Upstream connection leaves the Downstream slot as it
\* is, and a message event leaves both slots as they are.
C17_SlotsFrame ==
    [][/\ \A c \in ConnIds :
             CloseStep(c) => IF handlers[c].role = "Server"
                             THEN client' = client
                             ELSE server' = server
       /\ MessageStep => (server' = server /\ client' = client)]_vars

C17_Witness ==
    /\ conn[PRIMARY_ID] = "Closed"
    /\ conn[1] = "Closed"
    /\ handled = 2
    /\ server = Some(PRIMARY_ID)
    /\ client = Some(2)

\* C18: an inbound connection that is no longer the one in the Downstream
\* slot still forwards each message it receives to the Upstream peer, and no
\* Upstream message is sent to it.
C18_ReplacedClientStillFeeds ==
    [][\A c \in RegisteredClients :
          client # Some(c) =>
             /\ (MessageStep /\ event'.conn = Some(c) /\ ~event'.send_failed)
                   => /\ event'.result = "Ok"
                      /\ SendStep
                      /\ LastSent' = [src |-> c, dst |-> PRIMARY_ID,
                                      msg |-> event'.msg]
             /\ (SendStep /\ LastSent'.src = PRIMARY_ID) => LastSent'.dst # c]_vars

\* Connection 2 fed the server, then connection 1, which it had replaced.
C18_Witness ==
    /\ Len(sent) = 2
    /\ sent[1].src = 2 /\ sent[1].dst = PRIMARY_ID
    /\ sent[2].src = 1 /\ sent[2].dst = PRIMARY_ID
    /\ client = Some(2)

RECURSIVE IsSubsequence(_, _)
IsSubsequence(a, b) ==
    IF a = <<>> THEN TRUE
    ELSE IF b = <<>> THEN FALSE
    ELSE IF a[1] = b[1] THEN IsSubsequence(Tail(a), Tail(b))
    ELSE IsSubsequence(a, Tail(b))

MessageEntries(log) == SelectSeq(log, LAMBDA e : e.fmt = "message")

RECURSIVE EntriesOfSends(_, _)
\* The entries of the messages sent by the handlers of a role, in the order
\* of the sends.
EntriesOfSends(sends, role) ==
    IF sends = <<>> THEN <<>>
    ELSE (IF handlers[sends[1].src].role = role
          THEN <<[fmt |-> "message",
                  prefix |-> IF role = "Server" THEN SERVER_PREFIX
                             ELSE ClientPrefix(sends[1].src),
                  body |-> pretty_print(sends[1].msg, prettify_json)]>>
          ELSE <<>>)
         \o EntriesOfSends(Tail(sends), role)

\* C19: a message event that ends in a panic, on the assertion or on a failed
\* send, writes no transcript entry; the message entries of each transcript
\* belong to messages that were sent and stand in the order of the sends.
C19_SendBeforeLog ==
    /\ [][(MessageStep /\ event'.result = "panic")
            => (server_log' = server_log /\ client_log' = client_log)]_vars
    /\ [](/\ IsSubsequence(MessageEntries(server_log), EntriesOfSends(sent, "Server"))
          /\ IsSubsequence(MessageEntries(client_log), EntriesOfSends(sent, "Client")))

\* One message was sent and logged, the send of the next one failed.
C19_Witness ==
    /\ event.send_failed
    /\ event.result = "panic"
    /\ Len(sent) = 1
    /\ Len(MessageEntries(server_log)) + Len(MessageEntries(client_log)) = 1

\* C20: the Downstream slot is overwritten in the step that creates the
\* handler of an inbound connection, and from then on every Upstream message
\* is sent to that connection, whether or not it has been opened.
C20_RegisteredBeforeOpen ==
    [][/\ \A c \in ConnIds \ {PRIMARY_ID} :
             (conn[c] = "None" /\ conn'[c] = "Opening") => client' = Some(c)
       /\ (SendStep /\ LastSent'.src = PRIMARY_ID)
             => LastSent'.dst = NewestClient]_vars

\* The server's message went to connection 2, which is not open yet, while
\* connection 1 is.
C20_Witness ==
    /\ Len(sent) > 0
    /\ LastSent.src = PRIMARY_ID
    /\ LastSent.dst = 2
    /\ conn[2] = "Opening"
    /\ conn[1] = "Active"

====
